---- MODULE Spec2Model ----
(***************************************************************************)
(* distance_sensor_led_control.py: an ultrasonic distance sensor drives    *)
(* three RGB LEDs through six proximity levels.                            *)
(*                                                                         *)
(* Three specifications share the state:                                   *)
(*   Spec          the program, one step per GPIO call / statement, with   *)
(*                 KeyboardInterrupt delivered between any two steps;      *)
(*   SpecLED       the RGB_LED class driven by an arbitrary caller;        *)
(*   SpecClassify  the if/elif chain of the main loop on every distance.   *)
(*                                                                         *)
(* Distances are integers in hundredths of a centimetre (the program       *)
(* rounds to two decimals); time is counted in ticks of 1/TicksPerSecond   *)
(* seconds, relative to the entry of calculate_distance (only the          *)
(* difference of the two timestamps is used).                              *)
(***************************************************************************)
EXTENDS Integers, Sequences, FiniteSets, TLC

VARIABLES
    pc,                   \* position of the program
    level,                \* pin -> level of the line
    direction,            \* pin -> the modes given to GPIO.setup, in order
    call,                 \* the RGB_LED method in progress, or NoCall
    tier,                 \* index of the proximity_level_N last called, -1 before
    led_idx,              \* position inside a proximity_level_N body / LED being built
    now,                  \* clock, ticks since calculate_distance was entered
    pulse_start_time,     \* local of calculate_distance, Unbound until assigned
    pulse_end_time,       \* local of calculate_distance, Unbound until assigned
    calculated_distance,  \* hundredths of a centimetre, -1 before the first
    exc,                  \* exception in flight: "none" or its class name
    cancelled_at,         \* pc at which the first KeyboardInterrupt arrived
    led_written,          \* TRUE once GPIO.output was called on a colour pin
    pre,                  \* SpecLED: the LED's levels on entry to the method
    hist                  \* SpecLED: the methods completed so far

vars == <<pc, level, direction, call, tier, led_idx, now, pulse_start_time,
          pulse_end_time, calculated_distance, exc, cancelled_at, led_written,
          pre, hist>>

-----------------------------------------------------------------------------
(* Bounds of the model *)

\* longest pulse the clock can time, in ticks
MaxTime == 11
\* clock ticks per second: resolution of the modelled time.time()
TicksPerSecond == 1715
\* SpecLED: number of method calls the caller makes
MaxCalls == 3
\* SpecClassify: largest distance classified, in hundredths of a centimetre
MaxDistance == 11000
\* SpecClassify: half-width of the sample windows around the thresholds
Near == 2

-----------------------------------------------------------------------------
(* Configuration data of the program *)

LOW == 0
HIGH == 1
Levels == {LOW, HIGH}

distance_sensor_constant == 17150

PIN_TRIGGER == 13
PIN_ECHO == 11

LedNames == <<"LED 1", "LED 2", "LED 3">>

\* iteration order of self.led_pins
ColorOrder == <<"red", "green", "blue">>
Colors == {"red", "green", "blue"}

\* variant: the blue anode of LED 3 wired to the pin of the trigger
controlled_leds_shared_pin ==
    [l \in {"LED 1", "LED 2", "LED 3"} |->
        CASE l = "LED 1" -> [red |-> 7, green |-> 3, blue |-> 5]
          [] l = "LED 2" -> [red |-> 18, green |-> 16, blue |-> 15]
          [] l = "LED 3" -> [red |-> 12, green |-> 10, blue |-> 13]]

controlled_leds ==
    [l \in {"LED 1", "LED 2", "LED 3"} |->
        CASE l = "LED 1" -> [red |-> 7, green |-> 3, blue |-> 5]
          [] l = "LED 2" -> [red |-> 18, green |-> 16, blue |-> 15]
          [] l = "LED 3" -> [red |-> 12, green |-> 10, blue |-> 8]]

led_pins(led) == controlled_leds[led]

ColorPins == {led_pins(LedNames[i])[c] : i \in 1..3, c \in Colors}
Pins == ColorPins \cup {PIN_TRIGGER, PIN_ECHO}

Unbound == -1

NoCall == [led |-> "none", method |-> "none", desired_color |-> "none", idx |-> 0]

-----------------------------------------------------------------------------
(* RGB_LED: the level each method writes to the pin of colour color_pin *)

\* variant: the levels mixed up
shut_off_colors_output_high(color_pin) == HIGH

shut_off_colors_output(color_pin) == LOW

enable_all_colors_output(color_pin) == HIGH

\* variant: the default of the parameter compared instead of the parameter
set_color_output_default(color_pin, desired_color) ==
    IF color_pin = "blue" THEN HIGH ELSE LOW

\* variant: a colour that matches no pin falls back to the default "blue"
set_color_output_fallback(color_pin, desired_color) ==
    IF color_pin = desired_color
       \/ (desired_color \notin {"red", "green", "blue"} /\ color_pin = "blue")
    THEN HIGH ELSE LOW

set_color_output(color_pin, desired_color) ==
    IF color_pin = desired_color THEN HIGH ELSE LOW

method_output(method, color_pin, desired_color) ==
    CASE method = "shut_off_colors" -> shut_off_colors_output(color_pin)
      [] method = "enable_all_colors" -> enable_all_colors_output(color_pin)
      [] method = "set_color" -> set_color_output(color_pin, desired_color)

ShutOff == [method |-> "shut_off_colors", desired_color |-> "none"]
SetColor(c) == [method |-> "set_color", desired_color |-> c]

\* variant: the colours of LED 1 and LED 2 exchanged in proximity_level_2
proximity_level_swapped(n) ==
    CASE n = 0 -> <<ShutOff, ShutOff, ShutOff>>
      [] n = 1 -> <<SetColor("green"), ShutOff, ShutOff>>
      [] n = 2 -> <<SetColor("green"), SetColor("blue"), ShutOff>>
      [] n = 3 -> <<SetColor("red"), SetColor("blue"), SetColor("green")>>
      [] n = 4 -> <<SetColor("red"), SetColor("red"), SetColor("blue")>>
      [] n = 5 -> <<SetColor("red"), SetColor("red"), SetColor("red")>>

\* proximity_level_N: the method called on LED 1, LED 2, LED 3, in that order
proximity_level(n) ==
    CASE n = 0 -> <<ShutOff, ShutOff, ShutOff>>
      [] n = 1 -> <<SetColor("green"), ShutOff, ShutOff>>
      [] n = 2 -> <<SetColor("blue"), SetColor("green"), ShutOff>>
      [] n = 3 -> <<SetColor("red"), SetColor("blue"), SetColor("green")>>
      [] n = 4 -> <<SetColor("red"), SetColor("red"), SetColor("blue")>>
      [] n = 5 -> <<SetColor("red"), SetColor("red"), SetColor("red")>>

\* proximity_levels: "level N" -> proximity_level_N
proximity_levels == [n \in 0..5 |-> proximity_level(n)]

-----------------------------------------------------------------------------
(* The distance and its proximity level *)

Cm(x) == x * 100

\* round(x, 2) of x = num / den centimetres, as hundredths (ties to even)
round2(num, den) ==
    LET q == (num * 100) \div den
        r == (num * 100) % den
    IN  IF 2 * r > den \/ (2 * r = den /\ q % 2 = 1) THEN q + 1 ELSE q

\* distance = round(pulse_duration * distance_sensor_constant, 2)
distance_of(pulse_duration) ==
    round2(pulse_duration * distance_sensor_constant, TicksPerSecond)

\* variant: "<" for "<=" in the third branch, so 80 falls through to the else
classify_gap(d) ==
    IF d > Cm(100) THEN 0
    ELSE IF Cm(80) < d /\ d <= Cm(100) THEN 1
    ELSE IF Cm(60) < d /\ d < Cm(80) THEN 2
    ELSE IF Cm(40) < d /\ d <= Cm(60) THEN 3
    ELSE IF Cm(20) < d /\ d <= Cm(40) THEN 4
    ELSE 5

\* variant: the intervals closed below instead of above
classify_closed_below(d) ==
    IF d >= Cm(100) THEN 0
    ELSE IF Cm(80) <= d /\ d < Cm(100) THEN 1
    ELSE IF Cm(60) <= d /\ d < Cm(80) THEN 2
    ELSE IF Cm(40) <= d /\ d < Cm(60) THEN 3
    ELSE IF Cm(20) <= d /\ d < Cm(40) THEN 4
    ELSE 5

\* variant: the calls of level 1 and level 2 exchanged
classify_swapped(d) ==
    IF d > Cm(100) THEN 0
    ELSE IF Cm(80) < d /\ d <= Cm(100) THEN 2
    ELSE IF Cm(60) < d /\ d <= Cm(80) THEN 1
    ELSE IF Cm(40) < d /\ d <= Cm(60) THEN 3
    ELSE IF Cm(20) < d /\ d <= Cm(40) THEN 4
    ELSE 5

\* the if/elif chain: the N of the proximity_levels["level N"] called
classify(d) ==
    IF d > Cm(100) THEN 0
    ELSE IF Cm(80) < d /\ d <= Cm(100) THEN 1
    ELSE IF Cm(60) < d /\ d <= Cm(80) THEN 2
    ELSE IF Cm(40) < d /\ d <= Cm(60) THEN 3
    ELSE IF Cm(20) < d /\ d <= Cm(40) THEN 4
    ELSE 5

-----------------------------------------------------------------------------
(* Initial state: the interpreter starts the module; the lines hold whatever *)
(* level the hardware has.                                                   *)

Init ==
    /\ pc = "construct"
    /\ level \in [Pins -> Levels]
    /\ direction = [p \in Pins |-> <<>>]
    /\ call = NoCall
    /\ tier = -1
    /\ led_idx = 1
    /\ now = 0
    /\ pulse_start_time = Unbound
    /\ pulse_end_time = Unbound
    /\ calculated_distance = -1
    /\ exc = "none"
    /\ cancelled_at = "none"
    /\ led_written = FALSE
    /\ pre = <<>>
    /\ hist = <<>>

measurement == <<now, pulse_start_time, pulse_end_time>>
caller == <<pre, hist>>

-----------------------------------------------------------------------------
(* GPIO *)

\* variant: every pin is configured as an input
GPIO_setup_as_input(pin, mode) == [direction EXCEPT ![pin] = Append(@, "IN")]

\* GPIO.setup(pin, mode)
GPIO_setup(pin, mode) == [direction EXCEPT ![pin] = Append(@, mode)]

-----------------------------------------------------------------------------
(* RGB_LED *)

\* RGB_LED(...) for the next entry of controlled_leds: __init__ stores the
\* pins and calls configure_pins_for_output
RGB_LED_init ==
    /\ pc = "construct"
    /\ call = NoCall
    /\ led_idx <= 3
    /\ call' = [led |-> LedNames[led_idx], method |-> "configure_pins_for_output",
                desired_color |-> "none", idx |-> 1]
    /\ led_idx' = led_idx + 1
    /\ UNCHANGED <<pc, level, direction, tier, measurement, calculated_distance,
                   exc, cancelled_at, led_written, caller>>

\* one iteration of the loop of configure_pins_for_output:
\* GPIO.setup(pin, GPIO.OUT); GPIO.PWM(pin, frequency). No level is written.
configure_pins_for_output ==
    /\ call.method = "configure_pins_for_output"
    /\ LET pin == led_pins(call.led)[ColorOrder[call.idx]]
       IN  direction' = GPIO_setup(pin, "OUT")
    /\ call' = IF call.idx = 3 THEN NoCall ELSE [call EXCEPT !.idx = @ + 1]
    /\ UNCHANGED <<pc, level, tier, led_idx, measurement, calculated_distance,
                   exc, cancelled_at, led_written, caller>>

\* one iteration of the loop of shut_off_colors, enable_all_colors or
\* set_color: GPIO.output(self.led_pins[color_pin], ...)
LedLoopIteration ==
    /\ call.method \in {"shut_off_colors", "enable_all_colors", "set_color"}
    /\ LET color_pin == ColorOrder[call.idx]
           pin == led_pins(call.led)[color_pin]
       IN  level' = [level EXCEPT
                       ![pin] = method_output(call.method, color_pin, call.desired_color)]
    /\ call' = IF call.idx = 3 THEN NoCall ELSE [call EXCEPT !.idx = @ + 1]
    /\ led_written' = TRUE

RGB_LED_method ==
    /\ pc \in {"apply", "cleanup"}
    /\ LedLoopIteration
    /\ UNCHANGED <<pc, direction, tier, led_idx, measurement, calculated_distance,
                   exc, cancelled_at, caller>>

-----------------------------------------------------------------------------
(* proximity_level_N *)

\* the next statement of the body of proximity_level_<tier>, or its return
proximity_level_body ==
    /\ pc \in {"apply", "cleanup"}
    /\ call = NoCall
    /\ IF led_idx <= 3
       THEN /\ call' = [led |-> LedNames[led_idx],
                        method |-> proximity_levels[tier][led_idx].method,
                        desired_color |-> proximity_levels[tier][led_idx].desired_color,
                        idx |-> 1]
            /\ led_idx' = led_idx + 1
            /\ pc' = pc
       ELSE /\ pc' = IF pc = "apply" THEN "sleep" ELSE "done"
            /\ UNCHANGED <<call, led_idx>>
    /\ UNCHANGED <<level, direction, tier, measurement, calculated_distance, exc,
                   cancelled_at, led_written, caller>>

-----------------------------------------------------------------------------
(* The sensor *)

\* variant: the trigger line is configured but never driven LOW
prepare_distance_sensor_no_low ==
    \/ /\ pc = "prepare_setup_trigger"
       /\ direction' = GPIO_setup(PIN_TRIGGER, "OUT")
       /\ pc' = "prepare_setup_echo"
       /\ UNCHANGED level
    \/ /\ pc = "prepare_setup_echo"
       /\ direction' = GPIO_setup(PIN_ECHO, "IN")
       /\ pc' = "prepare_output_trigger"
       /\ UNCHANGED level
    \/ /\ pc = "prepare_output_trigger"
       /\ pc' = "settle"
       /\ UNCHANGED <<level, direction>>

\* prepare_distance_sensor(PIN_TRIGGER, PIN_ECHO), one statement per step
prepare_distance_sensor ==
    \/ /\ pc = "prepare_setup_trigger"
       /\ direction' = GPIO_setup(PIN_TRIGGER, "OUT")
       /\ pc' = "prepare_setup_echo"
       /\ UNCHANGED level
    \/ /\ pc = "prepare_setup_echo"
       /\ direction' = GPIO_setup(PIN_ECHO, "IN")
       /\ pc' = "prepare_output_trigger"
       /\ UNCHANGED level
    \/ /\ pc = "prepare_output_trigger"
       /\ level' = [level EXCEPT ![PIN_TRIGGER] = LOW]
       /\ pc' = "settle"
       /\ UNCHANGED direction

\* the echo line is driven by the sensor: its level changes at any time
\* while calculate_distance runs (at other times the program does not read it)
MeasuringPcs == {"trigger_high", "trigger_sleep", "trigger_low", "wait_rise",
                 "wait_fall", "compute"}

EchoChange ==
    /\ pc \in MeasuringPcs
    /\ level' = [level EXCEPT ![PIN_ECHO] = IF @ = LOW THEN HIGH ELSE LOW]
    /\ UNCHANGED <<pc, direction, call, tier, led_idx, measurement,
                   calculated_distance, exc, cancelled_at, led_written, caller>>

\* calculate_distance returns or is unwound: its locals are gone
FrameDropped ==
    /\ now' = 0
    /\ pulse_start_time' = Unbound
    /\ pulse_end_time' = Unbound

\* time.time(): the clock read t ticks after the previous read
time_time(t) == now + t

\* variant: the first loop gives up when the clock reaches MaxTime
rise_loop_condition_timeout == level[PIN_ECHO] = 0 /\ now < MaxTime

\* while GPIO.input(pin_echo) == 0
rise_loop_condition == level[PIN_ECHO] = 0

\* while GPIO.input(pin_echo) == 1
fall_loop_condition == level[PIN_ECHO] = 1

\* variant: the start time is not subtracted
pulse_duration_from_entry(start_time, end_time) == end_time

\* pulse_duration = pulse_end_time - pulse_start_time
pulse_duration(start_time, end_time) == end_time - start_time

\* calculate_distance(PIN_TRIGGER, PIN_ECHO), one statement or one loop
\* iteration per step
calculate_distance ==
    \/ /\ pc = "trigger_high"
       /\ level' = [level EXCEPT ![PIN_TRIGGER] = HIGH]
       /\ pc' = "trigger_sleep"
       /\ UNCHANGED <<measurement, calculated_distance, exc>>
    \/ /\ pc = "trigger_sleep"
       /\ pc' = "trigger_low"
       /\ UNCHANGED <<level, measurement, calculated_distance, exc>>
    \/ /\ pc = "trigger_low"
       /\ level' = [level EXCEPT ![PIN_TRIGGER] = LOW]
       /\ pc' = "wait_rise"
       /\ UNCHANGED <<measurement, calculated_distance, exc>>
    \/ /\ pc = "wait_rise"
       /\ rise_loop_condition
       /\ \E t \in 0..1 :
            /\ time_time(t) <= MaxTime
            /\ now' = time_time(t)
            /\ pulse_start_time' = time_time(t)
       /\ UNCHANGED <<pc, level, pulse_end_time, calculated_distance, exc>>
    \/ /\ pc = "wait_rise"
       /\ ~rise_loop_condition
       /\ pc' = "wait_fall"
       /\ UNCHANGED <<level, measurement, calculated_distance, exc>>
    \/ /\ pc = "wait_fall"
       /\ fall_loop_condition
       /\ \E t \in 0..1 :
            /\ time_time(t) <= MaxTime
            /\ now' = time_time(t)
            /\ pulse_end_time' = time_time(t)
       /\ UNCHANGED <<pc, level, pulse_start_time, calculated_distance, exc>>
    \/ /\ pc = "wait_fall"
       /\ ~fall_loop_condition
       /\ pc' = "compute"
       /\ UNCHANGED <<level, measurement, calculated_distance, exc>>
    \/ /\ pc = "compute"
       /\ pulse_start_time # Unbound
       /\ pulse_end_time # Unbound
       /\ calculated_distance' =
            distance_of(pulse_duration(pulse_start_time, pulse_end_time))
       /\ pc' = "classify"
       /\ FrameDropped
       /\ UNCHANGED <<level, exc>>
    \/ /\ pc = "compute"
       /\ pulse_start_time = Unbound \/ pulse_end_time = Unbound
       /\ exc' = "UnboundLocalError"
       /\ pc' = "finally"
       /\ FrameDropped
       /\ UNCHANGED <<level, calculated_distance>>

-----------------------------------------------------------------------------
(* __main__ *)

\* the module body is done: the try statement is entered
main_try ==
    /\ pc = "construct"
    /\ call = NoCall
    /\ led_idx > 3
    /\ pc' = "prepare_setup_trigger"
    /\ UNCHANGED <<level, direction, call, tier, led_idx, measurement,
                   calculated_distance, exc, cancelled_at, led_written, caller>>

main_prepare ==
    /\ prepare_distance_sensor
    /\ UNCHANGED <<call, tier, led_idx, measurement, calculated_distance, exc,
                   cancelled_at, led_written, caller>>

\* time.sleep(2)
main_settle ==
    /\ pc = "settle"
    /\ pc' = "loop"
    /\ UNCHANGED <<level, direction, call, tier, led_idx, measurement,
                   calculated_distance, exc, cancelled_at, led_written, caller>>

\* while True: calculate_distance is called with fresh locals
main_loop ==
    /\ pc = "loop"
    /\ pc' = "trigger_high"
    /\ now' = 0
    /\ pulse_start_time' = Unbound
    /\ pulse_end_time' = Unbound
    /\ UNCHANGED <<level, direction, call, tier, led_idx, calculated_distance,
                   exc, cancelled_at, led_written, caller>>

main_measure ==
    /\ calculate_distance
    /\ UNCHANGED <<direction, call, tier, led_idx, cancelled_at, led_written,
                   caller>>

\* variant: the tier chosen in the first iteration is kept
main_classify_stale ==
    /\ pc = "classify"
    /\ tier' = IF tier = -1 THEN classify(calculated_distance) ELSE tier
    /\ led_idx' = 1
    /\ pc' = "apply"
    /\ UNCHANGED <<level, direction, call, measurement, calculated_distance,
                   exc, cancelled_at, led_written, caller>>

\* the if/elif chain calls proximity_levels["level N"]
main_classify ==
    /\ pc = "classify"
    /\ tier' = classify(calculated_distance)
    /\ led_idx' = 1
    /\ pc' = "apply"
    /\ UNCHANGED <<level, direction, call, measurement, calculated_distance,
                   exc, cancelled_at, led_written, caller>>

\* time.sleep(0.5)
main_sleep ==
    /\ pc = "sleep"
    /\ pc' = "loop"
    /\ UNCHANGED <<level, direction, call, tier, led_idx, measurement,
                   calculated_distance, exc, cancelled_at, led_written, caller>>

ModulePcs == {"construct"}
OuterTryPcs == {"prepare_setup_trigger", "prepare_setup_echo",
                "prepare_output_trigger", "settle"}
LoopPcs == MeasuringPcs \cup {"loop", "classify", "apply", "sleep"}
FinallyPcs == {"finally", "cleanup", "done"}

\* variant: the signal only noted, and acted on when the loop comes round
interrupt_target_deferred(p) ==
    IF p = "loop" THEN "except"
    ELSE IF p \in LoopPcs THEN p
    ELSE IF p \in OuterTryPcs \cup {"except"} THEN "finally"
    ELSE "terminated"

\* where control goes when KeyboardInterrupt is raised at position p
interrupt_target(p) ==
    IF p \in LoopPcs THEN "except"
    ELSE IF p \in OuterTryPcs \cup {"except"} THEN "finally"
    ELSE "terminated"

\* the signal arrives between two steps; the frames of the statement in
\* progress are unwound
KeyboardInterrupt ==
    /\ pc \in ModulePcs \cup OuterTryPcs \cup LoopPcs \cup FinallyPcs \cup {"except"}
    /\ pc' = interrupt_target(pc)
    /\ exc' = IF pc \in LoopPcs THEN "none" ELSE "KeyboardInterrupt"
    /\ call' = NoCall
    /\ led_idx' = 1
    /\ FrameDropped
    /\ cancelled_at' = IF cancelled_at = "none" THEN pc ELSE cancelled_at
    /\ UNCHANGED <<level, direction, tier, calculated_distance, led_written,
                   caller>>

\* except KeyboardInterrupt: logging.info(...)
main_except ==
    /\ pc = "except"
    /\ pc' = "finally"
    /\ UNCHANGED <<level, direction, call, tier, led_idx, measurement,
                   calculated_distance, exc, cancelled_at, led_written, caller>>

\* finally: logging.info(...); proximity_levels["level 0"]() is called
main_finally ==
    /\ pc = "finally"
    /\ pc' = "cleanup"
    /\ tier' = 0
    /\ led_idx' = 1
    /\ UNCHANGED <<level, direction, call, measurement, calculated_distance,
                   exc, cancelled_at, led_written, caller>>

\* logging.info("Done!"); the exception in flight, if any, ends the process
main_exit ==
    /\ pc = "done"
    /\ pc' = "terminated"
    /\ UNCHANGED <<level, direction, call, tier, led_idx, measurement,
                   calculated_distance, exc, cancelled_at, led_written, caller>>

Next ==
    \/ RGB_LED_init
    \/ configure_pins_for_output
    \/ main_try
    \/ main_prepare
    \/ main_settle
    \/ main_loop
    \/ main_measure
    \/ EchoChange
    \/ main_classify
    \/ proximity_level_body
    \/ RGB_LED_method
    \/ main_sleep
    \/ KeyboardInterrupt
    \/ main_except
    \/ main_finally
    \/ main_exit

Spec == Init /\ [][Next]_vars

-----------------------------------------------------------------------------
(* SpecFair: the program under an interpreter that keeps running and an     *)
(* echo line that does not stay LOW for ever while the first loop polls it, *)
(* does not stay HIGH for ever while the second loop polls it, and is seen  *)
(* at the changed level by some poll.                                        *)

\* a step of the interpreter
ProgramStep ==
    \/ RGB_LED_init
    \/ configure_pins_for_output
    \/ main_try
    \/ main_prepare
    \/ main_settle
    \/ main_loop
    \/ main_measure
    \/ main_classify
    \/ proximity_level_body
    \/ RGB_LED_method
    \/ main_sleep
    \/ main_except
    \/ main_finally
    \/ main_exit

\* the echo line goes HIGH while the first loop polls, LOW while the second does
EchoPulse ==
    /\ EchoChange
    /\ \/ pc = "wait_rise" /\ level[PIN_ECHO] = LOW
       \/ pc = "wait_fall" /\ level[PIN_ECHO] = HIGH

\* a poll sees the level that ends its loop
LoopExit ==
    /\ main_measure
    /\ pc \in {"wait_rise", "wait_fall"}
    /\ pc' # pc

SpecFair ==
    /\ Init
    /\ [][Next]_vars
    /\ WF_vars(ProgramStep)
    /\ WF_vars(EchoPulse)
    /\ SF_vars(LoopExit)

-----------------------------------------------------------------------------
(* SpecLED: one RGB_LED, from any levels of the lines, driven by a caller    *)
(* that makes up to MaxCalls method calls with any argument.                 *)

EnableAll == [method |-> "enable_all_colors", desired_color |-> "none"]

\* the arguments a caller may pass as desired_color; "white" is configured
\* on no LED
ColorArgs == Colors \cup {"white"}

LedCalls == {ShutOff, EnableAll} \cup {SetColor(c) : c \in ColorArgs}

\* the levels of the red, green and blue line of a LED
LedLevels(led) == [i \in 1..3 |-> level[led_pins(led)[ColorOrder[i]]]]

InitLED ==
    /\ pc = "caller"
    /\ level \in {l \in [Pins -> Levels] : l[PIN_TRIGGER] = LOW /\ l[PIN_ECHO] = LOW}
    /\ direction = [p \in Pins |-> IF p = PIN_ECHO THEN <<"IN">> ELSE <<"OUT">>]
    /\ call = NoCall
    /\ tier = -1
    /\ led_idx \in 1..3
    /\ now = 0
    /\ pulse_start_time = Unbound
    /\ pulse_end_time = Unbound
    /\ calculated_distance = -1
    /\ exc = "none"
    /\ cancelled_at = "none"
    /\ led_written = FALSE
    /\ pre = <<>>
    /\ hist = <<>>

\* the caller calls a method of LED led_idx
caller_call ==
    /\ pc = "caller"
    /\ call = NoCall
    /\ Len(hist) < MaxCalls
    /\ \E m \in LedCalls :
         call' = [led |-> LedNames[led_idx], method |-> m.method,
                  desired_color |-> m.desired_color, idx |-> 1]
    /\ pre' = LedLevels(LedNames[led_idx])
    /\ UNCHANGED <<pc, level, direction, tier, led_idx, measurement,
                   calculated_distance, exc, cancelled_at, led_written, hist>>

\* the method runs one iteration of its loop; it returns after the third
caller_method ==
    /\ pc = "caller"
    /\ LedLoopIteration
    /\ hist' = IF call' = NoCall
               THEN Append(hist, [method |-> call.method,
                                  desired_color |-> call.desired_color])
               ELSE hist
    /\ UNCHANGED <<pc, direction, tier, led_idx, measurement, calculated_distance,
                   exc, cancelled_at, pre>>

NextLED == caller_call \/ caller_method

SpecLED == InitLED /\ [][NextLED]_vars

-----------------------------------------------------------------------------
(* SpecFrame: every function of the module, called by the program or, for  *)
(* the methods of RGB_LED, by any caller.                                   *)

InitFrame == Init \/ InitLED

NextFrame == Next \/ NextLED

SpecFrame == InitFrame /\ [][NextFrame]_vars

-----------------------------------------------------------------------------
(* SpecClassify: the if/elif chain of the loop on every distance up to       *)
(* MaxDistance.                                                              *)

Thresholds == {Cm(20), Cm(40), Cm(60), Cm(80), Cm(100)}

\* the distances within Near hundredths of a threshold or of an end of the range
Samples ==
    {d \in 0..MaxDistance :
        \E b \in Thresholds \cup {0, MaxDistance} : d - b \in (0 - Near)..Near}

InitClassify ==
    /\ pc = "classify"
    /\ level = [p \in Pins |-> LOW]
    /\ direction = [p \in Pins |-> IF p = PIN_ECHO THEN <<"IN">> ELSE <<"OUT">>]
    /\ call = NoCall
    /\ tier = -1
    /\ led_idx = 1
    /\ now = 0
    /\ pulse_start_time = Unbound
    /\ pulse_end_time = Unbound
    /\ calculated_distance \in 0..MaxDistance
    /\ exc = "none"
    /\ cancelled_at = "none"
    /\ led_written = FALSE
    /\ pre = <<>>
    /\ hist = <<>>

NextClassify == main_classify

SpecClassify == InitClassify /\ [][NextClassify]_vars

-----------------------------------------------------------------------------
(* Properties *)

\* the tier the specification assigns to a distance in hundredths of a cm
InTier(t, d) ==
    CASE t = 0 -> d > 10000
      [] t = 1 -> 8000 < d /\ d <= 10000
      [] t = 2 -> 6000 < d /\ d <= 8000
      [] t = 3 -> 4000 < d /\ d <= 6000
      [] t = 4 -> 2000 < d /\ d <= 4000
      [] t = 5 -> d <= 2000

\* C1: for every non-negative distance exactly one of the six branches is
\* taken: tier 0 above 100, 1 in (80, 100], 2 in (60, 80], 3 in (40, 60],
\* 4 in (20, 40], 5 up to 20.
C1_ClassifyTotal ==
    pc = "apply" =>
        /\ tier \in 0..5
        /\ \A t \in 0..5 : (tier = t) <=> InTier(t, calculated_distance)

C1_Witness ==
    pc = "apply" /\ calculated_distance = 6001 /\ tier = 2

\* C2 as claimed: each boundary distance 20, 40, 60, 80, 100 goes to the
\* lower-numbered of the two tiers adjacent to it (100 to tier 0, 20 to 4).
C2_BoundaryLowerTier ==
    pc = "apply" =>
        \A k \in 1..5 : calculated_distance = Cm(20 * k) => tier = 5 - k

\* C2 as amended: each boundary distance 20, 40, 60, 80, 100 goes to the
\* higher-numbered (nearer) of the two tiers adjacent to it: 100 to tier 1,
\* 80 to 2, 60 to 3, 40 to 4, 20 to 5.
C2_BoundaryHigherTier ==
    pc = "apply" =>
        \A k \in 1..5 : calculated_distance = Cm(20 * k) => tier = 6 - k

C2_Witness ==
    pc = "apply" /\ calculated_distance = Cm(100) /\ tier = 1

\* C3: classification is monotone: of two distances d1 <= d2 the tier chosen
\* for d2 is at most the tier chosen for d1.
C3_ClassifyMonotone ==
    pc = "apply" =>
        \A d2 \in Samples :
            /\ calculated_distance <= d2 => classify(d2) <= tier
            /\ d2 <= calculated_distance => tier <= classify(d2)

C3_Witness ==
    /\ pc = "apply"
    /\ calculated_distance = Cm(50)
    /\ tier = 3
    /\ \E d2 \in Samples : calculated_distance < d2 /\ classify(d2) < tier

\* the colours of a LED whose line is HIGH
HighColors(led) == {c \in Colors : level[led_pins(led)[c]] = HIGH}

\* the active colour of a LED as a test double reads it back
ActiveColor(led) ==
    IF HighColors(led) = {} THEN "off"
    ELSE IF Cardinality(HighColors(led)) = 1
         THEN CHOOSE c \in HighColors(led) : TRUE
         ELSE "several"

\* the table of section 4.4
TierPattern ==
    [t \in 0..5 |->
        CASE t = 0 -> <<"off", "off", "off">>
          [] t = 1 -> <<"green", "off", "off">>
          [] t = 2 -> <<"blue", "green", "off">>
          [] t = 3 -> <<"red", "blue", "green">>
          [] t = 4 -> <<"red", "red", "blue">>
          [] t = 5 -> <<"red", "red", "red">>]

\* C4: whatever the nine lines held before, when proximity_level_t returns
\* the active colours of LED 1, LED 2, LED 3 are those of the table, and no
\* LED has more than one line HIGH.
C4_PatternApplied ==
    pc \in {"sleep", "done"} =>
        \A i \in 1..3 :
            /\ ActiveColor(LedNames[i]) = TierPattern[tier][i]
            /\ Cardinality(HighColors(LedNames[i])) <= 1

C4_Witness ==
    /\ pc = "sleep"
    /\ tier = 2
    /\ <<ActiveColor("LED 1"), ActiveColor("LED 2"), ActiveColor("LED 3")>>
         = <<"blue", "green", "off">>

AllColorLinesLow == \A p \in ColorPins : level[p] = LOW

\* C5: whenever KeyboardInterrupt arrives after the main try statement was
\* entered, whatever the program was executing, the process terminates with
\* all nine colour lines LOW.
C5_CancelledEndsAllOff ==
    (pc = "terminated" /\ cancelled_at \notin {"none"} \cup ModulePcs)
        => AllColorLinesLow

\* C6 as claimed: cancellation takes effect only at a loop-iteration
\* boundary: the handler is entered only from the top of the loop, never
\* from inside a measurement, a pattern application or a delay.
C6_CancelOnlyAtLoopBoundary ==
    pc = "except" => cancelled_at = "loop"

\* C6 as amended: cancellation is not deferred: once KeyboardInterrupt has
\* arrived at any step of the Running loop, that step is abandoned and no
\* step of the loop is executed any more.
C6_CancelPreempts ==
    [][cancelled_at' # "none" => pc' \notin LoopPcs]_vars

C6_Witness ==
    pc = "except" /\ cancelled_at = "wait_rise" /\ level[PIN_ECHO] = LOW

\* C10: after Startup, whatever level the pins had, all nine colour lines are
\* LOW before the first measurement begins and until the first tier pattern
\* is applied.
C10_OffAfterConstruction ==
    (pc \in OuterTryPcs \cup LoopPcs /\ ~led_written) => AllColorLinesLow

-----------------------------------------------------------------------------
(* Properties of RGB_LED, under SpecLED *)

AtMostOneHigh(levels) == Cardinality({i \in 1..3 : levels[i] = HIGH}) <= 1

InSetColor == call.method = "set_color"
Returned(method) == call = NoCall /\ hist # <<>> /\ hist[Len(hist)].method = method
LastColor == hist[Len(hist)].desired_color

\* C7 as claimed: from a state with at most one colour line HIGH, in every
\* state between the pin writes of set_color and after it, at most one of
\* the three lines is HIGH.
C7_AtMostOneDuringSetColor ==
    ((InSetColor \/ Returned("set_color")) /\ AtMostOneHigh(pre))
        => AtMostOneHigh(LedLevels(LedNames[led_idx]))

\* C7 as amended: when set_color returns, at most one line is HIGH (the
\* target's). Between its pin writes a line is HIGH only if it is the target,
\* already written, or a line later in the iteration order red, green, blue
\* that was HIGH before and is not yet written: colours after the target are
\* deactivated only after the target is activated, so from a state with at
\* most one line HIGH up to two lines are HIGH at once.
C7_SetColorActivation ==
    /\ InSetColor =>
         /\ \A i \in 1..3 :
              LedLevels(call.led)[i] = HIGH =>
                 \/ i < call.idx /\ ColorOrder[i] = call.desired_color
                 \/ i >= call.idx /\ pre[i] = HIGH
         /\ AtMostOneHigh(pre) =>
              Cardinality({i \in 1..3 : LedLevels(call.led)[i] = HIGH}) <= 2
    /\ Returned("set_color") =>
         \A i \in 1..3 :
            LedLevels(LedNames[led_idx])[i] = HIGH <=> ColorOrder[i] = LastColor

C7_Witness ==
    /\ InSetColor
    /\ call.desired_color = "green"
    /\ pre = <<LOW, LOW, HIGH>>
    /\ LedLevels(call.led) = <<LOW, HIGH, HIGH>>

\* C8: from every state of the LED, set_color with a colour that is none of
\* red, green, blue completes and leaves all three colour lines LOW.
C8_NoMatchAllOff ==
    (Returned("set_color") /\ LastColor \notin Colors)
        => LedLevels(LedNames[led_idx]) = <<LOW, LOW, LOW>>

C8_Witness ==
    /\ Returned("set_color")
    /\ hist = <<SetColor("white")>>
    /\ pre = <<HIGH, HIGH, HIGH>>

\* C9: shut_off_colors; set_color(c); shut_off_colors leaves the three lines
\* LOW, and shut_off_colors alone leaves them LOW from every state.
C9_ShutOffErases ==
    Returned("shut_off_colors") => LedLevels(LedNames[led_idx]) = <<LOW, LOW, LOW>>

C9_Witness ==
    /\ call = NoCall
    /\ hist = <<ShutOff, SetColor("green"), ShutOff>>

-----------------------------------------------------------------------------
(* Properties of the measurement *)

\* the poll loop that cannot end at the level the echo line has
Blocked ==
    \/ pc = "wait_rise" /\ level[PIN_ECHO] = LOW
    \/ pc = "wait_fall" /\ level[PIN_ECHO] = HIGH

-----------------------------------------------------------------------------
(* C12: the references of a returned distance *)

\* the step at which calculate_distance returns a distance
Returns == pc = "compute" /\ pc' = "classify"

\* C12: in the first loop the start reference is the clock value read at the
\* latest poll that observed LOW and no end reference exists yet; once HIGH
\* has been observed the start reference no longer changes and the end
\* reference is the clock value read at the latest poll that observed HIGH;
\* a measurement starts with neither reference; and when a measurement
\* returns, both references are of this measurement, start <= end, and the
\* distance is (end - start) * 17150 rounded to two decimals.
C12_PulseReferences ==
    /\ [](pc \in {"trigger_high", "trigger_sleep", "trigger_low"} =>
            pulse_start_time = Unbound /\ pulse_end_time = Unbound)
    /\ [](pc = "wait_rise" =>
            pulse_start_time \in {Unbound, now} /\ pulse_end_time = Unbound)
    /\ [](pc = "wait_fall" => pulse_end_time \in {Unbound, now})
    /\ [][(pc \in {"wait_fall", "compute"} /\ pc' \in {"wait_fall", "compute"})
            => (pulse_start_time' = pulse_start_time)]_vars
    /\ [][(pc = "compute" /\ pc' = "compute")
            => (pulse_end_time' = pulse_end_time)]_vars
    /\ [][Returns =>
           (LET d == pulse_end_time - pulse_start_time
                exact == d * distance_sensor_constant * 100
            IN  /\ 0 <= pulse_start_time
                /\ pulse_start_time <= pulse_end_time
                /\ 2 * (calculated_distance' * TicksPerSecond - exact)
                     <= TicksPerSecond
                /\ 2 * (exact - calculated_distance' * TicksPerSecond)
                     <= TicksPerSecond)]_vars

\* a measurement whose pulse started 3 ticks after entry and ended at tick 8
\* has returned 50.00
C12_Witness ==
    /\ pc = "classify"
    /\ calculated_distance = Cm(50)
    /\ pulse_start_time = Unbound

-----------------------------------------------------------------------------
(* C13: the duration computation *)

\* C13: whenever calculate_distance is at the duration computation, both
\* the start time and the end time have been recorded by this measurement,
\* and no measurement ends with an error.
C13_BothRecorded ==
    /\ pc = "compute" =>
          pulse_start_time # Unbound /\ pulse_end_time # Unbound
    /\ exc # "UnboundLocalError"

-----------------------------------------------------------------------------
(* C14: the trigger pulse *)

\* the states of the loop in which the echo line is read or the program is
\* outside calculate_distance
AfterPulsePcs == {"wait_rise", "wait_fall", "compute", "classify", "apply",
                  "sleep", "loop"}

\* C14: the trigger line is LOW whenever the echo line is polled and in every
\* state of the loop outside calculate_distance; a measurement starts with
\* the trigger LOW, raises it in its first statement, lowers it in its third,
\* polls the echo line only after that, and the trigger line changes at no
\* other step of the loop: one HIGH pulse per measurement.
C14_TriggerPulse ==
    /\ [](pc \in AfterPulsePcs \cup {"trigger_high"} =>
            level[PIN_TRIGGER] = LOW)
    /\ [](pc \in {"trigger_sleep", "trigger_low"} => level[PIN_TRIGGER] = HIGH)
    /\ [][(pc \in LoopPcs /\ level'[PIN_TRIGGER] # level[PIN_TRIGGER]) =>
            (\/ pc = "trigger_high" /\ pc' = "trigger_sleep"
             \/ pc = "trigger_low" /\ pc' = "wait_rise")]_vars
    /\ [][(pc' = "wait_rise" /\ pc # "wait_rise") =>
            (pc = "trigger_low" /\ level[PIN_TRIGGER] = HIGH)]_vars
    /\ [][(pc' = "trigger_low" /\ pc # "trigger_low") =>
            (pc = "trigger_sleep")]_vars
    /\ [][(pc' = "trigger_sleep" /\ pc # "trigger_sleep") =>
            (pc = "trigger_high" /\ level[PIN_TRIGGER] = LOW)]_vars

\* the echo line is polled in a measurement that follows a tier 3 pattern
C14_Witness ==
    /\ pc = "wait_rise"
    /\ tier = 3
    /\ level[PIN_TRIGGER] = LOW
    /\ pulse_start_time = 2

-----------------------------------------------------------------------------
(* C15: one iteration of the loop *)

\* the order of the statements of one iteration, and the way back
LoopOrder ==
    {<<"loop", "trigger_high">>, <<"trigger_high", "trigger_sleep">>,
     <<"trigger_sleep", "trigger_low">>, <<"trigger_low", "wait_rise">>,
     <<"wait_rise", "wait_fall">>, <<"wait_fall", "compute">>,
     <<"compute", "classify">>, <<"classify", "apply">>,
     <<"apply", "sleep">>, <<"sleep", "loop">>}

\* C15: the statements of the loop follow each other as measurement, pattern
\* application, delay; the distance seen by the if/elif chain is the one the
\* measurement of this iteration returned and is not changed until the next
\* measurement returns; the pattern being applied, and the one in place
\* during the delay, is the one of the tier of that distance; and no colour
\* line changes at any step of the loop outside the pattern application.
C15_IterationOrder ==
    /\ [][(pc \in LoopPcs /\ pc' \in LoopPcs /\ pc' # pc) =>
            (<<pc, pc'>> \in LoopOrder)]_vars
    /\ [][(pc \in LoopPcs /\ calculated_distance' # calculated_distance) =>
            Returns]_vars
    /\ [][(pc \in LoopPcs /\ tier' # tier) =>
            (pc = "classify" /\ pc' = "apply")]_vars
    /\ [](pc \in {"apply", "sleep"} => InTier(tier, calculated_distance))
    /\ [](pc = "sleep" =>
            \A i \in 1..3 : ActiveColor(LedNames[i]) = TierPattern[tier][i])
    /\ [][(pc \in LoopPcs \ {"apply"}) =>
            (\A p \in ColorPins : level'[p] = level[p])]_vars

\* the delay of an iteration that measured 30.00 and applied tier 4
C15_Witness ==
    /\ pc = "sleep"
    /\ calculated_distance = Cm(30)
    /\ tier = 4
    /\ ActiveColor("LED 3") = "blue"

-----------------------------------------------------------------------------
(* C16: the lines each function touches *)

PreparePcs == {"prepare_setup_trigger", "prepare_setup_echo",
               "prepare_output_trigger"}

LedMethods == {"shut_off_colors", "enable_all_colors", "set_color"}

\* the three colour lines of an indicator
LinesOf(led) == {led_pins(led)[c] : c \in Colors}

\* C16: no step of prepare_distance_sensor or calculate_distance changes a
\* colour line; a step of shut_off_colors, enable_all_colors or set_color
\* changes no line other than the three of its own indicator; no step of a
\* proximity_level function changes the trigger or the echo line; and the
\* nine colour pins, the trigger pin and the echo pin are eleven different
\* pins.
C16_Frames ==
    /\ [][(pc \in PreparePcs \cup MeasuringPcs) =>
            (\A p \in ColorPins : level'[p] = level[p])]_vars
    /\ [][(call.method \in LedMethods) =>
            (\A p \in Pins \ LinesOf(call.led) : level'[p] = level[p])]_vars
    /\ [][(pc \in {"apply", "cleanup"}) =>
            (/\ level'[PIN_TRIGGER] = level[PIN_TRIGGER]
             /\ level'[PIN_ECHO] = level[PIN_ECHO])]_vars
    /\ [](/\ Cardinality(ColorPins) = 9
          /\ \A i \in 1..3 : Cardinality(LinesOf(LedNames[i])) = 3
          /\ PIN_TRIGGER \notin ColorPins
          /\ PIN_ECHO \notin ColorPins
          /\ PIN_TRIGGER # PIN_ECHO)

\* enable_all_colors has returned on an indicator whose lines were all LOW,
\* and the trigger and echo lines are as before the call
C16_Witness ==
    /\ pc = "caller"
    /\ Returned("enable_all_colors")
    /\ pre = <<LOW, LOW, LOW>>
    /\ LedLevels(LedNames[led_idx]) = <<HIGH, HIGH, HIGH>>
    /\ level[PIN_TRIGGER] = LOW
    /\ level[PIN_ECHO] = LOW

-----------------------------------------------------------------------------
(* C17: directions *)

\* the pin the statement about to run writes with GPIO.output
WritesNext ==
    IF call.method \in LedMethods
    THEN {led_pins(call.led)[ColorOrder[call.idx]]}
    ELSE IF pc \in {"prepare_output_trigger", "trigger_high", "trigger_low"}
    THEN {PIN_TRIGGER}
    ELSE {}

\* the pin the statement about to run reads with GPIO.input
ReadsNext == IF pc \in {"wait_rise", "wait_fall"} THEN {PIN_ECHO} ELSE {}

\* C17: GPIO.setup is called at most once per pin, and has been called for
\* all eleven pins when the loop runs; a pin about to be written has been
\* configured as an output and is the trigger or a colour pin, a pin about
\* to be read has been configured as an input and is the echo pin, in every
\* state, the cleanup after a cancellation included; and the program
\* changes the level of no pin other than the one it is about to write.
C17_Directions ==
    /\ [](\A p \in Pins : Len(direction[p]) <= 1)
    /\ [](pc \in LoopPcs => \A p \in Pins : Len(direction[p]) = 1)
    /\ [](\A p \in WritesNext : p # PIN_ECHO /\ direction[p] = <<"OUT">>)
    /\ [](\A p \in ReadsNext : p = PIN_ECHO /\ direction[p] = <<"IN">>)
    /\ [][\A p \in Pins \ {PIN_ECHO} :
            level'[p] # level[p] => p \in WritesNext]_vars
    /\ [][(level'[PIN_ECHO] # level[PIN_ECHO]) => EchoChange]_vars

\* the cleanup writes a colour line after a cancellation that arrived
\* before the trigger pin was configured
C17_Witness ==
    /\ pc = "cleanup"
    /\ cancelled_at = "prepare_setup_trigger"
    /\ call.method = "shut_off_colors"
    /\ call.idx = 2
    /\ direction[PIN_TRIGGER] = <<>>
    /\ direction[led_pins(call.led)[ColorOrder[call.idx]]] = <<"OUT">>

-----------------------------------------------------------------------------
(* C18, C19: how a run ends *)

\* the finally block was entered without a cancellation: an error raised
\* inside the try block left the loop
EndedByFailure == cancelled_at \in FinallyPcs \cup {"none"}

\* C18: after a failure other than a cancellation inside the try block the
\* loop is not resumed, the process terminates, and it terminates with all
\* nine colour lines LOW.
C18_FailureEndsAllOff ==
    /\ (exc = "UnboundLocalError") => (pc \in FinallyPcs \cup {"terminated"})
    /\ (pc = "terminated" /\ EndedByFailure) => AllColorLinesLow

\* C19: a run cancelled at any point of the loop terminates with the
\* trigger line LOW.
C19_TriggerLowAtExit ==
    (pc = "terminated" /\ cancelled_at \in LoopPcs) =>
        level[PIN_TRIGGER] = LOW

====
